---- MODULE Spec2Model ----
(***************************************************************************)
(* A model of the college-football play-by-play scraper                    *)
(* (scripts/01-cfdscraper.py) and of the batch cleanup script              *)
(* (scripts/02-clean.py).                                                  *)
(*                                                                         *)
(* Text values (clock strings, descriptions, location strings, half       *)
(* labels) are sequences of one-character strings, so that split(':'),     *)
(* int(), str.upper() and the substring test `a in b` are computed and     *)
(* not assumed.  Scalar values that are only ever compared for equality    *)
(* (team ids, abbreviations, play-type labels) are TLA+ strings.           *)
(***************************************************************************)
EXTENDS Integers, Sequences, FiniteSets, TLC

VARIABLES
    conv,           \* one call of convert_clock_to_seconds: input, result
    roster,         \* the 12-tuple returned by get_home_away for the game
    timeout_state,  \* the dict {'home_timeouts', 'away_timeouts'} of a game
    before,         \* timeout_state as it was before the row being applied
    cur_play,       \* the play record the row pass is working on
    last_row,       \* the row of game_df the apply passes produced for it
    n_rows,         \* number of rows of the game completed so far
    gpc,            \* position of the row pass: "read", "apply", "append"
    cap,            \* history: the value of the last reset (3, or 1 in overtime)
    raised,         \* exception that left get_play_by_play, or "none"
    pc,             \* position of extract_season
    idx,            \* index into zip(game_ids, current_dates)
    date,           \* the date paired with the game of index idx
    counter,        \* extract_season's counter of in-range games
    json,           \* the payload of the game being processed
    pbp,            \* season accumulator of rows
    teams,          \* season accumulator of team records
    trace,          \* sequence of "GET" / "sleep" events of the run
    skipped,        \* games skipped by the driver's except TypeError
    fetched,        \* games whose play-by-play fetch was issued
    out_csv,        \* what the persist step wrote
    exc,            \* exception that ended extract_season, or "none"
    teams_csv,      \* teams.csv as 02-clean.py finds it: sequence of team_id
    years,          \* years/*.csv : file name -> sequence of play_id
    csv_files,      \* glob result still to be processed by 02-clean.py
    combined_data,  \* combined_data frame of 02-clean.py
    cpc,            \* position of 02-clean.py
    runs            \* number of completed invocations of 02-clean.py

clockVars == <<conv>>
gameVars == <<roster, timeout_state, before, cur_play, last_row, n_rows, gpc,
              cap, raised>>
seasonVars == <<pc, idx, date, counter, json, pbp, teams, trace, skipped,
                fetched, out_csv, exc>>
cleanVars == <<teams_csv, years, csv_files, combined_data, cpc, runs>>
vars == <<conv, roster, timeout_state, before, cur_play, last_row, n_rows, gpc,
          cap, raised,
          pc, idx, date, counter, json, pbp, teams, trace, skipped,
          fetched, out_csv, exc, teams_csv, years, csv_files, combined_data, cpc,
          runs>>

----------------------------------------------------------------------------
(* Python values *)

\* None in a scalar (id, abbreviation, label) position
None == "None"

\* None in a text position (no real text has a multi-character element)
NoneText == <<"None">>

\* a key that is absent from a JSON object (distinct from a null value)
MissingKey == <<"MissingKey">>

\* None returned by convert_clock_to_seconds (real results are >= 0 here)
NoSeconds == -1

Lowers == <<"a","b","c","d","e","f","g","h","i","j","k","l","m",
            "n","o","p","q","r","s","t","u","v","w","x","y","z">>

Uppers == <<"A","B","C","D","E","F","G","H","I","J","K","L","M",
            "N","O","P","Q","R","S","T","U","V","W","X","Y","Z">>

\* str.upper() on one character
UpperChar(c) ==
    IF \E i \in 1..Len(Lowers) : Lowers[i] = c
    THEN Uppers[CHOOSE i \in 1..Len(Lowers) : Lowers[i] = c]
    ELSE c

\* str.upper()
Upper(s) == [i \in 1..Len(s) |-> UpperChar(s[i])]

\* the substring test `a in b` on two texts
Contains(b, a) ==
    \E k \in 0..(Len(b) - Len(a)) :
        \A i \in 1..Len(a) : b[k + i] = a[i]

Digits == <<"0","1","2","3","4","5","6","7","8","9">>

DigitVal(c) == (CHOOSE i \in 1..10 : Digits[i] = c) - 1

\* int(s) for a text of decimal digits
RECURSIVE ToInt(_)
ToInt(s) ==
    IF Len(s) = 0 THEN 0
    ELSE 10 * ToInt(SubSeq(s, 1, Len(s) - 1)) + DigitVal(s[Len(s)])

\* str(n) for n >= 0
RECURSIVE Str(_)
Str(n) ==
    IF n < 10 THEN <<Digits[n + 1]>>
    ELSE Str(n \div 10) \o <<Digits[(n % 10) + 1]>>

\* s.split(':')
RECURSIVE Split(_)
Split(s) ==
    IF \E i \in 1..Len(s) : s[i] = ":"
    THEN LET i == CHOOSE j \in 1..Len(s) :
                      s[j] = ":" /\ \A k \in 1..(j - 1) : s[k] # ":"
         IN <<SubSeq(s, 1, i - 1)>> \o Split(SubSeq(s, i + 1, Len(s)))
    ELSE <<s>>

----------------------------------------------------------------------------
(* convert_clock_to_seconds *)

MaxQuarter == 6
MaxMinutes == 15

Quarters == 0..MaxQuarter
SecondsSet == {0, 7, 30, 59}

\* the upstream display clock of a play with `m` minutes and `s` seconds left
\* in the period; minutes are sent with or without a leading zero
DisplayClock(m, s, pad) ==
    (IF pad /\ m < 10 THEN <<"0">> ELSE <<>>) \o Str(m) \o <<":">>
        \o (IF s < 10 THEN <<"0">> ELSE <<>>) \o Str(s)

\* mutant: line 129 without the overtime case
ConvertNoOvertimeGuard(clock, quarter) ==
    IF clock = NoneText THEN NoSeconds
    ELSE LET parts == Split(clock)
             quarter_seconds == ToInt(parts[1]) * 60 + ToInt(parts[2])
         IN quarter_seconds + (4 - quarter) * 15 * 60

ConvertClockToSeconds(clock, quarter) ==
    IF clock = NoneText THEN NoSeconds
    ELSE LET parts == Split(clock)
             minutes == ToInt(parts[1])
             seconds == ToInt(parts[2])
             quarter_seconds == minutes * 60 + seconds
             total_seconds ==
                 (IF quarter <= 4 THEN 4 - quarter ELSE 0) * 15 * 60
         IN quarter_seconds + total_seconds

----------------------------------------------------------------------------
(* get_home_away *)

\* a 'team' object of a competitor record; present = FALSE models a record
\* without the 'team' key, logos = FALSE a team without the 'logos' key
Team(id, abbreviation, location) ==
    [present |-> TRUE, id |-> id, abbreviation |-> abbreviation,
     color |-> id, logos |-> TRUE, location |-> location]

NoTeam ==
    [present |-> FALSE, id |-> None, abbreviation |-> None,
     color |-> None, logos |-> FALSE, location |-> NoneText]

Rice == <<"R","i","c","e">>
Army == <<"A","R","M","Y">>

TeamRice == Team("1", "RICE", Rice)
TeamArmy == Team("2", "ARMY", Army)

\* a competitor record; homeAway = None models a record without the tag
\* (dict.get returns None), rank = "NaN" a record without the 'rank' key
Competitor(tag, team) == [homeAway |-> tag, team |-> team, rank |-> "NaN"]

\* the decorator's defaults (with_default_values): every field None
DefaultRoster ==
    [home_team |-> None, home_id |-> None, away_team |-> None,
     away_id |-> None, home_color |-> None, away_color |-> None,
     home_rank |-> None, away_rank |-> None, home_logo |-> None,
     away_logo |-> None, h_location |-> NoneText, a_location |-> NoneText]

\* the assignments of the `if` branch, in source order; an exception stops
\* the sequence where it is raised and keeps what was assigned before it
AssignHome(r, c) ==
    IF ~c.team.present THEN [r |-> r, ok |-> FALSE]
    ELSE LET r1 == [r EXCEPT !.home_team = c.team.abbreviation,
                             !.home_id = c.team.id,
                             !.home_color = c.team.color,
                             !.home_rank = c.rank]
         IN IF ~c.team.logos THEN [r |-> r1, ok |-> FALSE]
            ELSE [r |-> [r1 EXCEPT !.home_logo = c.team.id,
                                   !.h_location = c.team.location],
                  ok |-> TRUE]

\* the assignments of the `else` branch
AssignAway(r, c) ==
    IF ~c.team.present THEN [r |-> r, ok |-> FALSE]
    ELSE LET r1 == [r EXCEPT !.away_team = c.team.abbreviation,
                             !.away_id = c.team.id,
                             !.away_color = c.team.color,
                             !.away_rank = c.rank]
         IN IF ~c.team.logos THEN [r |-> r1, ok |-> FALSE]
            ELSE [r |-> [r1 EXCEPT !.away_logo = c.team.id,
                                   !.a_location = c.team.location],
                  ok |-> TRUE]

AssignSide(r, c) ==
    IF c.homeAway = "home" THEN AssignHome(r, c) ELSE AssignAway(r, c)

\* get_home_away: for i in range(2), inside try/except Exception; whatever
\* is raised (indexing None, a missing record, a missing key) is printed
\* and the values assigned so far are returned
GetHomeAway(_json) ==
    IF _json.isNone \/ Len(_json.items) < 1 THEN DefaultRoster
    ELSE LET s1 == AssignSide(DefaultRoster, _json.items[1])
         IN IF ~s1.ok \/ Len(_json.items) < 2 THEN s1.r
            ELSE AssignSide(s1.r, _json.items[2]).r

Competitors(items) == [isNone |-> FALSE, items |-> items]

NoCompetitors == [isNone |-> TRUE, items |-> <<>>]

\* the competitor lists a payload may carry
CompetitorLists ==
    { Competitors(<<Competitor("home", TeamRice), Competitor("away", TeamArmy)>>),
      Competitors(<<Competitor("away", TeamArmy), Competitor("home", TeamRice)>>),
      Competitors(<<Competitor(None, TeamRice), Competitor(None, TeamArmy)>>),
      Competitors(<<Competitor("home", TeamRice), Competitor("home", TeamArmy)>>),
      Competitors(<<Competitor("home", TeamRice), Competitor("away", NoTeam)>>),
      Competitors(<<Competitor("home", [TeamRice EXCEPT !.logos = FALSE]),
                    Competitor("away", TeamArmy)>>),
      NoCompetitors }

----------------------------------------------------------------------------
(* timeout_decrementor *)

TimeoutText == "Timeout"
OT == <<"O","T">>

\* mutant: line 146 without the upper-cased alternative
NamesHomeCaseSensitive(description, location) ==
    Contains(description, location)

\* the test of line 146: location in description or location.upper() in
\* description
NamesHome(description, location) ==
    Contains(description, location) \/ Contains(description, Upper(location))

\* line 145-149 raise TypeError when location is None (None in <str>)
FirstCheckRaises(row, location) ==
    /\ row.play_type = TimeoutText
    /\ row.description # NoneText
    /\ location = NoneText

\* lines 154-161 raise TypeError when the description is None (the test
\* `is not None` comes after the two uses) or the location is None
OvertimeCheckRaises(row, location) ==
    /\ row.game_seconds_remaining = 0
    /\ Contains(row.half, OT)
    /\ row.play_type = TimeoutText
    /\ (row.description = NoneText \/ location = NoneText)

\* lines 145-149
Decrement(row, df, location) ==
    IF row.play_type = TimeoutText /\ row.description # NoneText
    THEN IF NamesHome(row.description, location)
         THEN [df EXCEPT !.home_timeouts = @ - 1]
         ELSE [df EXCEPT !.away_timeouts = @ - 1]
    ELSE df

\* lines 150-152
HalfReset(row, df) ==
    IF row.game_seconds_remaining = 1800
    THEN [home_timeouts |-> 3, away_timeouts |-> 3]
    ELSE df

\* mutant: lines 154-156 without the second decrement of lines 157-161
OvertimeResetNoRedecrement(row, df, location) ==
    IF row.game_seconds_remaining = 0 /\ Contains(row.half, OT)
    THEN [home_timeouts |-> 1, away_timeouts |-> 1]
    ELSE df

\* lines 154-161
OvertimeReset(row, df, location) ==
    IF row.game_seconds_remaining = 0 /\ Contains(row.half, OT)
    THEN LET one == [home_timeouts |-> 1, away_timeouts |-> 1]
         IN IF row.play_type = TimeoutText
            THEN IF NamesHome(row.description, location)
                 THEN [one EXCEPT !.home_timeouts = @ - 1]
                 ELSE [one EXCEPT !.away_timeouts = @ - 1]
            ELSE one
    ELSE df

\* mutant: the second-half reset of lines 150-152 taken before the decrement
\* of lines 145-149
TimeoutDecrementorResetFirst(row, df, location) ==
    IF FirstCheckRaises(row, location) \/ OvertimeCheckRaises(row, location)
    THEN [raised |-> "TypeError", df |-> df]
    ELSE [raised |-> "none",
          df |-> OvertimeReset(row, Decrement(row, HalfReset(row, df), location),
                               location)]

\* timeout_decrementor(row, df, location): the dict after the call, or the
\* TypeError it raises
TimeoutDecrementor(row, df, location) ==
    IF FirstCheckRaises(row, location) \/ OvertimeCheckRaises(row, location)
    THEN [raised |-> "TypeError", df |-> df]
    ELSE [raised |-> "none",
          df |-> OvertimeReset(row, HalfReset(row, Decrement(row, df, location)),
                               location)]

----------------------------------------------------------------------------
(* get_play_by_play: the columns of game_df, row by row *)

NA == <<"N","/","A">>

\* line 262
HalfLabel(x) ==
    IF x \in {1, 2} THEN <<"H","a","l","f","1">>
    ELSE IF x \in {3, 4} THEN <<"H","a","l","f","2">>
    ELSE OT \o Str(x)

\* line 254
PosteamType(posteam, r) ==
    IF posteam = r.home_id THEN "home"
    ELSE IF posteam = r.away_id THEN "away"
    ELSE "neutral"

\* line 255
Defteam(posteam, r) == IF posteam = r.home_id THEN r.away_id ELSE r.home_id

\* lines 220-267: the columns that do not depend on the timeout state.
\* play.text = MissingKey models a play without 'text', play.type = None a
\* play whose 'type' is absent or null.
BaseRow(play, r, game_id) ==
    [game_id |-> game_id,
     play_id |-> play.id,
     home_id |-> r.home_id,
     home_team |-> r.home_team,
     away_id |-> r.away_id,
     away_team |-> r.away_team,
     posteam |-> play.team,
     posteam_type |-> PosteamType(play.team, r),
     defteam |-> Defteam(play.team, r),
     quarter |-> play.period,
     clock |-> play.clock,
     game_seconds_remaining |-> ConvertClockToSeconds(play.clock, play.period),
     half |-> HalfLabel(play.period),
     play_type |-> IF play.type # None THEN play.type ELSE "N/A",
     description |-> IF play.text # MissingKey THEN play.text ELSE NA]

\* mutant: line 271 with the two branches exchanged
PosteamTosSwapped(row, df, r) ==
    IF row.posteam = r.home_id THEN df.away_timeouts ELSE df.home_timeouts

\* line 271
PosteamTos(row, df, r) ==
    IF row.posteam = r.home_id THEN df.home_timeouts ELSE df.away_timeouts

\* line 272
DefteamTos(row, df, r) ==
    IF row.defteam = r.home_id THEN df.home_timeouts ELSE df.away_timeouts

\* lines 270-272: the four timeout columns of a row, from the dict as the
\* tracker left it for that row
TimeoutColumns(row, df, r) ==
    [home_timeouts |-> df.home_timeouts,
     away_timeouts |-> df.away_timeouts,
     posteam_tos |-> PosteamTos(row, df, r),
     defteam_tos |-> DefteamTos(row, df, r)]

\* game_ids: the identifier of the i-th game of the list
GameId(i) == 400 + i

\* line 269
InitialTimeouts == [home_timeouts |-> 3, away_timeouts |-> 3]

----------------------------------------------------------------------------
(* Values the variables of a component hold while another one runs *)

NoRow ==
    [game_id |-> 0, play_id |-> 0, home_id |-> None, home_team |-> None,
     away_id |-> None, away_team |-> None, posteam |-> None,
     posteam_type |-> None, defteam |-> None, quarter |-> 0,
     clock |-> NoneText, game_seconds_remaining |-> NoSeconds,
     half |-> NoneText, play_type |-> None, description |-> NoneText,
     home_timeouts |-> 3, away_timeouts |-> 3, posteam_tos |-> 3,
     defteam_tos |-> 3]

NoPlay ==
    [id |-> 0, text |-> MissingKey, type |-> None, period |-> 0,
     clock |-> NoneText, team |-> None]

NoJson ==
    [header |-> FALSE, competitions |-> FALSE, competitors |-> NoCompetitors,
     id |-> 0, drives |-> FALSE, plays |-> <<>>]

NoCsv == [play_by_play |-> <<>>, teams |-> <<>>]

IdleClock ==
    conv = [minutes |-> 0, seconds |-> 0, clock |-> NoneText, quarter |-> 0,
            called |-> FALSE, result |-> 0]

IdleGame ==
    /\ roster = DefaultRoster
    /\ timeout_state = InitialTimeouts
    /\ before = InitialTimeouts
    /\ cur_play = NoPlay
    /\ last_row = NoRow
    /\ n_rows = 0
    /\ gpc = "idle"
    /\ cap = 3
    /\ raised = "none"

IdleSeason ==
    /\ pc = "idle"
    /\ idx = 0
    /\ date = 0
    /\ counter = 0
    /\ json = NoJson
    /\ pbp = <<>>
    /\ teams = <<>>
    /\ trace = <<>>
    /\ skipped = {}
    /\ fetched = {}
    /\ out_csv = NoCsv
    /\ exc = "none"

IdleClean ==
    /\ teams_csv = <<>>
    /\ years = <<>>
    /\ csv_files = <<>>
    /\ combined_data = <<>>
    /\ cpc = "idle"
    /\ runs = 0

----------------------------------------------------------------------------
(* Specification of one call of convert_clock_to_seconds *)

InitClock ==
    /\ \E m \in 0..MaxMinutes, s \in SecondsSet, pad \in BOOLEAN,
          absent \in BOOLEAN, q \in Quarters :
           conv = [minutes |-> m, seconds |-> s,
                   clock |-> IF absent THEN NoneText
                             ELSE DisplayClock(m, s, pad),
                   quarter |-> q, called |-> FALSE, result |-> 0]
    /\ IdleGame /\ IdleSeason /\ IdleClean

CallConvert ==
    /\ ~conv.called
    /\ conv' = [conv EXCEPT
                   !.called = TRUE,
                   !.result = ConvertClockToSeconds(conv.clock, conv.quarter)]
    /\ UNCHANGED <<gameVars, seasonVars, cleanVars>>

NextClock == CallConvert

SpecClock == InitClock /\ [][NextClock]_vars

----------------------------------------------------------------------------
(* Specification of the row pass of get_play_by_play over one game *)

MaxPlays == 4
MaxPeriod == 5

TimeoutRice == <<"T","O"," ","R","i","c","e">>
TimeoutRICE == <<"T","O"," ","R","I","C","E">>
TimeoutARMY == <<"T","O"," ","A","R","M","Y">>
EndOfGame == <<"E","n","d">>

Texts == {TimeoutRice, TimeoutRICE, TimeoutARMY, NoneText, MissingKey}
PlayTypes == {TimeoutText, "Rush", None}
GameClocks == {DisplayClock(15, 0, FALSE), DisplayClock(0, 0, FALSE), NoneText}
TeamIds == {"1", "2", "3"}

PlayInputs(id) ==
    [id : {id}, text : Texts, type : PlayTypes, period : 1..MaxPeriod,
     clock : GameClocks, team : TeamIds]

InitGame ==
    /\ roster \in {GetHomeAway(c) : c \in CompetitorLists}
    /\ timeout_state = InitialTimeouts
    /\ before = InitialTimeouts
    /\ cur_play = NoPlay
    /\ last_row = NoRow
    /\ n_rows = 0
    /\ gpc = "read"
    /\ cap = 3
    /\ raised = "none"
    /\ IdleClock /\ IdleSeason /\ IdleClean

\* lines 218-232: the next play of the payload, in payload order.  (pandas
\* computes column by column; every column but the timeout columns is
\* row-local and the tracker scans the rows in order, so the pass is taken
\* row by row.)
ReadPlay ==
    /\ gpc = "read"
    /\ n_rows < MaxPlays
    /\ \E p \in PlayInputs(n_rows + 1) : cur_play' = p
    /\ gpc' = "apply"
    /\ UNCHANGED <<roster, timeout_state, before, last_row, n_rows, cap,
                   raised>>
    /\ UNCHANGED <<clockVars, seasonVars, cleanVars>>

\* lines 243-272 for the row of cur_play: the row-local columns, the tracker
\* call of line 270 on the shared dict, and the two columns of lines 271-272
ApplyRow ==
    /\ gpc = "apply"
    /\ LET row == BaseRow(cur_play, roster, GameId(1))
           res == TimeoutDecrementor(row, timeout_state, roster.h_location)
       IN /\ res.raised = "none"
          /\ before' = timeout_state
          /\ timeout_state' = res.df
          /\ last_row' = row @@ TimeoutColumns(row, res.df, roster)
          /\ cap' = IF row.game_seconds_remaining = 1800 THEN 3
                    ELSE IF row.game_seconds_remaining = 0
                            /\ Contains(row.half, OT) THEN 1
                    ELSE cap
    /\ gpc' = "append"
    /\ UNCHANGED <<roster, cur_play, n_rows, raised>>
    /\ UNCHANGED <<clockVars, seasonVars, cleanVars>>

\* a row on which timeout_decrementor raises: the exception leaves
\* get_play_by_play (only AttributeError is caught there) and game_df is lost
ApplyRowRaises ==
    /\ gpc = "apply"
    /\ LET row == BaseRow(cur_play, roster, GameId(1))
           res == TimeoutDecrementor(row, timeout_state, roster.h_location)
       IN /\ res.raised # "none"
          /\ raised' = res.raised
    /\ gpc' = "raised"
    /\ n_rows' = 0
    /\ UNCHANGED <<roster, timeout_state, before, cur_play, last_row, cap>>
    /\ UNCHANGED <<clockVars, seasonVars, cleanVars>>

\* the row is part of game_df; the pass moves to the next play
AppendRow ==
    /\ gpc = "append"
    /\ n_rows' = n_rows + 1
    /\ cur_play' = NoPlay
    /\ last_row' = NoRow
    /\ before' = timeout_state
    /\ gpc' = "read"
    /\ UNCHANGED <<roster, timeout_state, cap, raised>>
    /\ UNCHANGED <<clockVars, seasonVars, cleanVars>>

NextGame == ReadPlay \/ ApplyRow \/ ApplyRowRaises \/ AppendRow

SpecGame == InitGame /\ [][NextGame]_vars

----------------------------------------------------------------------------
(* Properties of the row pass (SpecGame) *)

\* a row has been produced by the apply passes and is about to be appended
RowEmitted == gpc = "append"

AtHalfBoundary(row) == row.game_seconds_remaining = 1800

AtOvertimeBoundary(row) ==
    row.game_seconds_remaining = 0 /\ Contains(row.half, OT)

\* get_home_away resolved a home and an away side for the game
RosterResolved ==
    /\ roster.home_id # None
    /\ roster.away_id # None
    /\ roster.h_location # NoneText

\* C1: for any sequence of rows of one game, the home_timeouts and
\* away_timeouts emitted for every row are non-negative and never exceed 3
\* (never exceed 1 after an overtime reset, until the next reset boundary).
\* Stated for the games whose roster resolved, so that a violation does not
\* rest on a malformed roster.
C1_TimeoutsWithinBounds ==
    (RowEmitted /\ RosterResolved) =>
        /\ 0 <= last_row.home_timeouts /\ last_row.home_timeouts <= cap
        /\ 0 <= last_row.away_timeouts /\ last_row.away_timeouts <= cap

\* The upper half of C1 alone: the emitted counters never exceed the value
\* of the last reset.
TimeoutsNeverExceedCap ==
    RowEmitted =>
        /\ last_row.home_timeouts <= cap
        /\ last_row.away_timeouts <= cap

\* C2: every row whose game_seconds_remaining is exactly 1800 is emitted with
\* home_timeouts = 3 and away_timeouts = 3, whatever the counters were before
\* and also when that row is a Timeout play.
C2_HalfResetGivesThree ==
    (RowEmitted /\ AtHalfBoundary(last_row)) =>
        /\ last_row.home_timeouts = 3
        /\ last_row.away_timeouts = 3

\* C2 witness: a Timeout row naming the home side at 1800 seconds, reached
\* with fewer than 3 home timeouts left, emitted with (3, 3)
C2_Witness ==
    /\ RowEmitted
    /\ AtHalfBoundary(last_row)
    /\ last_row.play_type = TimeoutText
    /\ last_row.description = TimeoutRice
    /\ roster.h_location = Rice
    /\ before.home_timeouts < 3
    /\ last_row.home_timeouts = 3
    /\ last_row.away_timeouts = 3

\* C6: in every row posteam_tos is the row's home_timeouts when the row's
\* posteam equals its home_id and its away_timeouts otherwise, and
\* defteam_tos is the row's home_timeouts when the row's defteam equals its
\* home_id and its away_timeouts otherwise.
C6_RoleTimeoutsSelectCounters ==
    RowEmitted =>
        /\ last_row.posteam_tos =
               (IF last_row.posteam = last_row.home_id
                THEN last_row.home_timeouts ELSE last_row.away_timeouts)
        /\ last_row.defteam_tos =
               (IF last_row.defteam = last_row.home_id
                THEN last_row.home_timeouts ELSE last_row.away_timeouts)

\* C6 witness: a row whose posteam matches neither team, with different
\* home and away counters
C6_Witness ==
    /\ RowEmitted
    /\ last_row.posteam_type = "neutral"
    /\ last_row.home_id # None
    /\ last_row.away_id # None
    /\ last_row.home_timeouts # last_row.away_timeouts
    /\ last_row.posteam_tos = last_row.away_timeouts
    /\ last_row.defteam_tos = last_row.home_timeouts

C10_DecrementOnlyOnTimeout ==
    (RowEmitted /\ ~AtHalfBoundary(last_row) /\ ~AtOvertimeBoundary(last_row)) =>
        IF last_row.play_type = TimeoutText /\ last_row.description # NoneText
        THEN IF \/ Contains(last_row.description, roster.h_location)
                \/ Contains(last_row.description, Upper(roster.h_location))
             THEN /\ last_row.home_timeouts = before.home_timeouts - 1
                  /\ last_row.away_timeouts = before.away_timeouts
             ELSE /\ last_row.home_timeouts = before.home_timeouts
                  /\ last_row.away_timeouts = before.away_timeouts - 1
        ELSE /\ last_row.home_timeouts = before.home_timeouts
             /\ last_row.away_timeouts = before.away_timeouts

\* C10 witness: a Timeout row away from both boundaries whose description
\* holds the home location only in upper case: the home counter dropped by 1
C10_Witness ==
    /\ RowEmitted
    /\ ~AtHalfBoundary(last_row)
    /\ ~AtOvertimeBoundary(last_row)
    /\ last_row.play_type = TimeoutText
    /\ roster.h_location = Rice
    /\ last_row.description = TimeoutRICE
    /\ last_row.home_timeouts = before.home_timeouts - 1
    /\ last_row.away_timeouts = before.away_timeouts

----------------------------------------------------------------------------
(* Properties of convert_clock_to_seconds (SpecClock) *)

\* C7: convert_clock_to_seconds returns None for an absent clock and
\* otherwise minutes*60 + seconds + base, base = 15*60*(4 - quarter) for
\* quarter <= 4 and 0 for quarter > 4; ("15:00", 1) gives 3600, ("00:00", 4)
\* gives 0 and ("10:00", 5) gives 600.
C7_ClockToSeconds ==
    conv.called =>
        /\ conv.clock = NoneText => conv.result = NoSeconds
        /\ conv.clock # NoneText =>
               conv.result = conv.minutes * 60 + conv.seconds
                   + (IF conv.quarter <= 4 THEN 15 * 60 * (4 - conv.quarter)
                      ELSE 0)
        /\ (conv.clock = <<"1","5",":","0","0">> /\ conv.quarter = 1)
               => conv.result = 3600
        /\ (conv.clock = <<"0","0",":","0","0">> /\ conv.quarter = 4)
               => conv.result = 0
        /\ (conv.clock = <<"1","0",":","0","0">> /\ conv.quarter = 5)
               => conv.result = 600

\* C7 witness: the call on ("10:00", 5) has returned 600
C7_Witness ==
    /\ conv.called
    /\ conv.clock = <<"1","0",":","0","0">>
    /\ conv.quarter = 5
    /\ conv.result = 600

----------------------------------------------------------------------------
(* get_play_by_play and get_teams on a fetched payload *)

\* lines 270-272 over the rows of a game in order; the first TypeError of
\* the tracker ends the pass
RECURSIVE ApplyRows(_, _, _, _)
ApplyRows(plays, r, game_id, df) ==
    IF plays = <<>> THEN [raised |-> "none", game_df |-> <<>>]
    ELSE LET row == BaseRow(Head(plays), r, game_id)
             res == TimeoutDecrementor(row, df, r.h_location)
         IN IF res.raised # "none"
            THEN [raised |-> res.raised, game_df |-> <<>>]
            ELSE LET rest == ApplyRows(Tail(plays), r, game_id, res.df)
                 IN [raised |-> rest.raised,
                     game_df |->
                         IF rest.raised # "none" THEN <<>>
                         ELSE <<row @@ TimeoutColumns(row, res.df, r)>>
                                  \o rest.game_df]

\* lines 192-277 of get_play_by_play on the decoded payload:
\*   header absent       -> AttributeError at 193, caught; the names stay
\*                          unbound; AttributeError again at 234 (or at 218
\*                          without drives), caught: empty frame
\*   competitions absent -> TypeError at 193 (None[0]), not caught here
\*   drives absent       -> AttributeError at 218, caught: empty frame
\*   otherwise the rows, or the TypeError of the tracker
PlayByPlay(payload) ==
    IF ~payload.header THEN [raised |-> "none", game_df |-> <<>>]
    ELSE IF ~payload.competitions
    THEN [raised |-> "TypeError", game_df |-> <<>>]
    ELSE IF ~payload.drives THEN [raised |-> "none", game_df |-> <<>>]
    ELSE ApplyRows(payload.plays, GetHomeAway(payload.competitors),
                   payload.id, InitialTimeouts)

\* lines 302 and 305: one record of the teams frame
TeamRecord(location, name, id, color, logo) ==
    [team_location |-> location, team_name |-> name, team_id |-> id,
     color |-> <<"#", color>>, logo |-> logo]

\* lines 294-307 of get_teams on the decoded payload:
\*   header absent       -> AttributeError at 295, caught; home_team unbound
\*                          at 301: UnboundLocalError
\*   competitions absent -> TypeError at 295
\*   otherwise the home record and, unless its name is already there, the
\*   away record
GetTeams(payload) ==
    IF ~payload.header THEN [raised |-> "UnboundLocalError", teams |-> <<>>]
    ELSE IF ~payload.competitions
    THEN [raised |-> "TypeError", teams |-> <<>>]
    ELSE LET r == GetHomeAway(payload.competitors)
             home == TeamRecord(r.h_location, r.home_team, r.home_id,
                                r.home_color, r.home_logo)
             away == TeamRecord(r.a_location, r.away_team, r.away_id,
                                r.away_color, r.away_logo)
         IN [raised |-> "none",
             teams |-> IF r.away_team # r.home_team THEN <<home, away>>
                       ELSE <<home>>]

----------------------------------------------------------------------------
(* Specification of extract_season *)

MaxGames == 3

\* lines 350 and 351
StartDate == 20230801
EndDate == 20240131

Dates == {StartDate - 70, StartDate, EndDate, EndDate + 70}

RushPlay(id) ==
    [id |-> id, text |-> <<"R","u","n">>, type |-> "Rush", period |-> 1,
     clock |-> DisplayClock(15, 0, FALSE), team |-> "1"]

EndPlay(id) ==
    [id |-> id, text |-> EndOfGame, type |-> "End of Game", period |-> 4,
     clock |-> DisplayClock(0, 0, TRUE), team |-> "2"]

TimeoutPlay(id) ==
    [id |-> id, text |-> TimeoutRICE, type |-> TimeoutText, period |-> 2,
     clock |-> DisplayClock(7, 30, FALSE), team |-> "2"]

PlayLists == {<<RushPlay(1), EndPlay(2)>>, <<RushPlay(1), TimeoutPlay(2)>>}

\* the documents the service may answer with for game `id`
Payloads(id) ==
    { [header |-> TRUE, competitions |-> TRUE, competitors |-> c, id |-> id,
       drives |-> TRUE, plays |-> pl] : c \in CompetitorLists, pl \in PlayLists }
    \cup
    { [header |-> h, competitions |-> cs,
       competitors |-> Competitors(<<Competitor("home", TeamRice),
                                     Competitor("away", TeamArmy)>>),
       id |-> id, drives |-> d, plays |-> <<RushPlay(1), EndPlay(2)>>] :
         h \in BOOLEAN, cs \in BOOLEAN, d \in BOOLEAN }

InitSeason ==
    /\ pc = "loop"
    /\ idx = 0
    /\ date = 0
    /\ counter = 0
    /\ json = NoJson
    /\ pbp = <<>>
    /\ teams = <<>>
    /\ trace = <<>>
    /\ skipped = {}
    /\ fetched = {}
    /\ out_csv = NoCsv
    /\ exc = "none"
    /\ IdleClock /\ IdleGame /\ IdleClean

\* lines 326-330: the next (game, date) pair, its date in range
LoopInRange ==
    /\ pc = "loop"
    /\ idx < MaxGames
    /\ \E d \in Dates :
           /\ StartDate <= d /\ d <= EndDate
           /\ date' = d
    /\ idx' = idx + 1
    /\ counter' = counter + 1
    /\ pc' = "pbp_get"
    /\ UNCHANGED <<json, pbp, teams, trace, skipped, fetched, out_csv, exc>>
    /\ UNCHANGED <<clockVars, gameVars, cleanVars>>

\* lines 326-327: the next pair, its date out of range
LoopOutOfRange ==
    /\ pc = "loop"
    /\ idx < MaxGames
    /\ \E d \in Dates :
           /\ ~(StartDate <= d /\ d <= EndDate)
           /\ date' = d
    /\ idx' = idx + 1
    /\ UNCHANGED <<pc, counter, json, pbp, teams, trace, skipped, fetched,
                   out_csv, exc>>
    /\ UNCHANGED <<clockVars, gameVars, cleanVars>>

\* lines 186-187 of get_play_by_play: the request is answered with a JSON
\* document
FetchPlayByPlay ==
    /\ pc = "pbp_get"
    /\ \E payload \in Payloads(GameId(idx)) : json' = payload
    /\ trace' = Append(trace, "GET")
    /\ fetched' = fetched \cup {idx}
    /\ pc' = "pbp_sleep"
    /\ UNCHANGED <<idx, date, counter, pbp, teams, skipped, out_csv, exc>>
    /\ UNCHANGED <<clockVars, gameVars, cleanVars>>

\* lines 186-187: requests.get raises ConnectionError, or response.json()
\* raises JSONDecodeError; neither is a TypeError or an AttributeError, so
\* no handler of the script catches it and extract_season ends with it
FetchPlayByPlayFails ==
    /\ pc = "pbp_get"
    /\ \E e \in {"ConnectionError", "JSONDecodeError"} : exc' = e
    /\ trace' = Append(trace, "GET")
    /\ fetched' = fetched \cup {idx}
    /\ pc' = "aborted"
    /\ UNCHANGED <<idx, date, counter, json, pbp, teams, skipped, out_csv>>
    /\ UNCHANGED <<clockVars, gameVars, cleanVars>>

\* line 190
Sleep ==
    /\ pc = "pbp_sleep"
    /\ trace' = Append(trace, "sleep")
    /\ pc' = "pbp_build"
    /\ UNCHANGED <<idx, date, counter, json, pbp, teams, skipped, fetched,
                   out_csv, exc>>
    /\ UNCHANGED <<clockVars, gameVars, cleanVars>>

\* lines 192-277 and line 332: the frame of the game is appended to pbp
BuildPlayByPlay ==
    /\ pc = "pbp_build"
    /\ PlayByPlay(json).raised = "none"
    /\ pbp' = pbp \o PlayByPlay(json).game_df
    /\ pc' = "teams_get"
    /\ UNCHANGED <<idx, date, counter, json, teams, trace, skipped, fetched,
                   out_csv, exc>>
    /\ UNCHANGED <<clockVars, gameVars, cleanVars>>

\* lines 192-277 raise TypeError: lines 334-335 print and go to the next
\* game; line 333 is not reached
BuildPlayByPlayRaises ==
    /\ pc = "pbp_build"
    /\ PlayByPlay(json).raised = "TypeError"
    /\ skipped' = skipped \cup {idx}
    /\ pc' = "loop"
    /\ UNCHANGED <<idx, date, counter, json, pbp, teams, trace, fetched,
                   out_csv, exc>>
    /\ UNCHANGED <<clockVars, gameVars, cleanVars>>

\* lines 291-292 of get_teams: the same document is fetched again; there is
\* no sleep in get_teams
FetchTeams ==
    /\ pc = "teams_get"
    /\ trace' = Append(trace, "GET")
    /\ pc' = "teams_build"
    /\ UNCHANGED <<idx, date, counter, json, pbp, teams, skipped, fetched,
                   out_csv, exc>>
    /\ UNCHANGED <<clockVars, gameVars, cleanVars>>

\* lines 291-292 raise
FetchTeamsFails ==
    /\ pc = "teams_get"
    /\ \E e \in {"ConnectionError", "JSONDecodeError"} : exc' = e
    /\ trace' = Append(trace, "GET")
    /\ pc' = "aborted"
    /\ UNCHANGED <<idx, date, counter, json, pbp, teams, skipped, fetched,
                   out_csv>>
    /\ UNCHANGED <<clockVars, gameVars, cleanVars>>

\* lines 294-307 and line 333: the team records are appended to teams
BuildTeams ==
    /\ pc = "teams_build"
    /\ GetTeams(json).raised = "none"
    /\ teams' = teams \o GetTeams(json).teams
    /\ pc' = "loop"
    /\ UNCHANGED <<idx, date, counter, json, pbp, trace, skipped, fetched,
                   out_csv, exc>>
    /\ UNCHANGED <<clockVars, gameVars, cleanVars>>

\* lines 294-307 raise: a TypeError is caught by lines 334-335, an
\* UnboundLocalError (header absent) is not and ends extract_season
BuildTeamsRaises ==
    /\ pc = "teams_build"
    /\ GetTeams(json).raised # "none"
    /\ IF GetTeams(json).raised = "TypeError"
       THEN /\ skipped' = skipped \cup {idx}
            /\ pc' = "loop"
            /\ exc' = exc
       ELSE /\ exc' = GetTeams(json).raised
            /\ pc' = "aborted"
            /\ skipped' = skipped
    /\ UNCHANGED <<idx, date, counter, json, pbp, teams, trace, fetched,
                   out_csv>>
    /\ UNCHANGED <<clockVars, gameVars, cleanVars>>

\* line 338: the rows whose description does not contain 'End'
WithoutEnd(rows) ==
    SelectSeq(rows, LAMBDA row : ~Contains(row.description, EndOfGame))

\* lines 338-344 after the loop: filter and persist.  A pbp to which no row
\* was ever appended has no 'description' column: line 338 raises KeyError.
FilterAndPersist ==
    /\ pc = "loop"
    /\ idx = MaxGames
    /\ IF pbp = <<>>
       THEN /\ exc' = "KeyError"
            /\ pc' = "aborted"
            /\ UNCHANGED <<pbp, out_csv>>
       ELSE /\ pbp' = WithoutEnd(pbp)
            /\ out_csv' = [play_by_play |-> WithoutEnd(pbp), teams |-> teams]
            /\ pc' = "done"
            /\ exc' = exc
    /\ UNCHANGED <<idx, date, counter, json, teams, trace, skipped, fetched>>
    /\ UNCHANGED <<clockVars, gameVars, cleanVars>>

NextSeason ==
    \/ LoopInRange
    \/ LoopOutOfRange
    \/ FetchPlayByPlay
    \/ FetchPlayByPlayFails
    \/ Sleep
    \/ BuildPlayByPlay
    \/ BuildPlayByPlayRaises
    \/ FetchTeams
    \/ FetchTeamsFails
    \/ BuildTeams
    \/ BuildTeamsRaises
    \/ FilterAndPersist

SpecSeason == InitSeason /\ [][NextSeason]_vars

----------------------------------------------------------------------------
(* Properties of extract_season (SpecSeason) *)

\* extract_season has returned or has ended with an exception
SeasonEnded == pc \in {"done", "aborted"}

\* C3: a fetch, parse or roster-resolution failure on one in-range game is
\* caught, the game is skipped, every later in-range game is still fetched
\* and the run reaches the filter-and-persist step: the run never ends
\* before the whole list was walked, nor with an exception of a game.
C3_GameFailureNeverAbortsSeason ==
    SeasonEnded => (idx = MaxGames /\ exc \in {"none", "KeyError"})

\* C4: no row of the season accumulator carries an absent home or away
\* identifier (a game whose competitor records do not resolve to one home
\* and one away side contributes no row).
C4_NoRowWithAbsentSide ==
    \A i \in 1..Len(pbp) : pbp[i].home_id # None /\ pbp[i].away_id # None

\* C5: between any two successive GET requests of a run there is a sleep.
C5_SleepBetweenFetches ==
    \A i \in 1..(Len(trace) - 1) : ~(trace[i] = "GET" /\ trace[i + 1] = "GET")

----------------------------------------------------------------------------
(* Specification of 02-clean.py *)

MaxRuns == 2
MaxFileRows == 2

PlayIds == {-2, 1}

SeasonFiles == {"2022play_by_play.csv", "2023play_by_play.csv"}
CombinedFile == "combined.csv"

SeqsUpTo(S, n) == UNION {[1..k -> S] : k \in 0..n}

\* the orders glob.glob may list the files of a set in
Orders(S) ==
    {f \in [1..Cardinality(S) -> S] :
        \A i, j \in 1..Cardinality(S) : f[i] = f[j] => i = j}

\* line 10-11
positive(column) == IF column < 0 THEN -column ELSE column

\* line 6: drop_duplicates('team_id') keeps the first record of each id
RECURSIVE DropDuplicates(_)
DropDuplicates(ids) ==
    IF ids = <<>> THEN <<>>
    ELSE LET front == DropDuplicates(SubSeq(ids, 1, Len(ids) - 1))
             last == ids[Len(ids)]
         IN IF \E i \in 1..Len(front) : front[i] = last THEN front
            ELSE Append(front, last)

InitClean ==
    /\ teams_csv \in SeqsUpTo({"1", "2"}, 2)
    /\ years \in [SeasonFiles -> SeqsUpTo(PlayIds, MaxFileRows)]
    /\ csv_files = <<>>
    /\ combined_data = <<>>
    /\ cpc = "start"
    /\ runs = 0
    /\ IdleClock /\ IdleGame /\ IdleSeason

\* lines 6-15 of an invocation: teams.csv is rewritten without duplicate
\* ids, every .csv of years/ is listed, combined_data starts empty
StartClean ==
    /\ cpc \in {"start", "done"}
    /\ runs < MaxRuns
    /\ teams_csv' = DropDuplicates(teams_csv)
    /\ \E order \in Orders(DOMAIN years) : csv_files' = order
    /\ combined_data' = <<>>
    /\ cpc' = "files"
    /\ UNCHANGED <<years, runs>>
    /\ UNCHANGED <<clockVars, gameVars, seasonVars>>

\* lines 17-21 for the next listed file
CleanFile ==
    /\ cpc = "files"
    /\ csv_files # <<>>
    /\ LET file == Head(csv_files)
           curr == [i \in 1..Len(years[file]) |-> positive(years[file][i])]
       IN /\ years' = [years EXCEPT ![file] = curr]
          /\ combined_data' = combined_data \o curr
    /\ csv_files' = Tail(csv_files)
    /\ UNCHANGED <<teams_csv, cpc, runs>>
    /\ UNCHANGED <<clockVars, gameVars, seasonVars>>

\* line 24
WriteCombined ==
    /\ cpc = "files"
    /\ csv_files = <<>>
    /\ years' = [f \in DOMAIN years \cup {CombinedFile} |->
                    IF f = CombinedFile THEN combined_data ELSE years[f]]
    /\ cpc' = "done"
    /\ runs' = runs + 1
    /\ UNCHANGED <<teams_csv, csv_files, combined_data>>
    /\ UNCHANGED <<clockVars, gameVars, seasonVars>>

NextClean == StartClean \/ CleanFile \/ WriteCombined

SpecClean == InitClean /\ [][NextClean]_vars

RECURSIVE SumRows(_, _)
SumRows(files, S) ==
    IF S = {} THEN 0
    ELSE LET f == CHOOSE x \in S : TRUE
         IN Len(files[f]) + SumRows(files, S \ {f})

\* C8: after every invocation of the cleanup pass, also a repeated one, the
\* combined file has as many rows as the per-season files have together.
C8_CombinedRowCount ==
    cpc = "done" =>
        Len(years[CombinedFile]) = SumRows(years, SeasonFiles)

====
